---- MODULE Spec2Model ----
(***************************************************************************)
(* The mcp-substack server (src/lib/index.mjs).  The file holds two builds *)
(* of the same program: the basic build (lines 1-186, debug writes to      *)
(* stderr only) and the enhanced build (lines 187-409, debug also appends  *)
(* to a log file with fs.appendFileSync).  Both are modelled; the variable *)
(* build says which one runs.                                              *)
(*                                                                         *)
(* Strings that the program parses (URLs) are sequences of one-character   *)
(* strings.  Texts that the program only trims and concatenates (element   *)
(* text, messages) are sequences of tokens, " " being a whitespace token.  *)
(***************************************************************************)
EXTENDS Integers, Sequences, FiniteSets, TLC

\* ------------------------------------------------------------------ bounds
NumReqs == 2        \* tool calls in flight at once
MaxLogFaults == 2   \* debug calls that fail within one synchronous segment
MaxNodes == 3       \* elements of a generated document

\* ----------------------------------------------------------------- strings
RECURSIVE Concat(_)
Concat(ss) == IF ss = <<>> THEN <<>> ELSE Head(ss) \o Concat(Tail(ss))

UpperChars == <<"A","B","C","K","M","O","P","S","T","U","H","X">>
LowerChars == <<"a","b","c","k","m","o","p","s","t","u","h","x">>
DigitChars == {"0","1"}
AlphaChars == {UpperChars[i] : i \in 1..Len(UpperChars)} \cup
              {LowerChars[i] : i \in 1..Len(LowerChars)} \cup {"e","i","f","d","n"}
\* \w of a JavaScript regular expression: [A-Za-z0-9_]
WordChars == AlphaChars \cup DigitChars \cup {"_"}

\* String.prototype.toLowerCase on one character (the host of a special URL)
LowerChar(c) ==
    IF \E i \in 1..Len(UpperChars) : UpperChars[i] = c
    THEN LowerChars[CHOOSE i \in 1..Len(UpperChars) : UpperChars[i] = c]
    ELSE c
ToLower(s) == [i \in 1..Len(s) |-> LowerChar(s[i])]

\* String.prototype.endsWith
EndsWith(s, suffix) ==
    /\ Len(s) >= Len(suffix)
    /\ SubSeq(s, Len(s) - Len(suffix) + 1, Len(s)) = suffix

\* index of the first character of s that is in set cs, Len(s)+1 if none
FirstIn(s, cs) ==
    IF \E i \in 1..Len(s) : s[i] \in cs
    THEN CHOOSE i \in 1..Len(s) : s[i] \in cs /\ \A j \in 1..(i-1) : s[j] \notin cs
    ELSE Len(s) + 1

\* index of the first character of s that is NOT in cs, Len(s)+1 if none
FirstNotIn(s, cs) ==
    IF \E i \in 1..Len(s) : s[i] \notin cs
    THEN CHOOSE i \in 1..Len(s) : s[i] \notin cs /\ \A j \in 1..(i-1) : s[j] \in cs
    ELSE Len(s) + 1

WhiteSpace == {" ", "\n"}

\* String.prototype.trim, on characters and on tokens alike
Trim(s) ==
    LET a == FirstNotIn(s, WhiteSpace)
        b == IF a > Len(s) THEN 0
             ELSE CHOOSE i \in 1..Len(s) :
                    s[i] \notin WhiteSpace /\ \A j \in (i+1)..Len(s) : s[j] \in WhiteSpace
    IN  SubSeq(s, a, b)

\* --------------------------------------------------------------- new URL()
\* The WHATWG URL parser as new URL(url) runs it without a base, for strings
\* over the characters above and "/", ":", ".", "-", "_", "?", "#", "!", " ".
\* It yields hostname and pathname, or fails (the constructor throws TypeError).
SpecialSchemes == { <<"h","t","t","p">>, <<"h","t","t","p","s">> }
SchemeChars == AlphaChars \cup DigitChars \cup {"+", "-", "."}
HostStops == {"/", "?", "#"}
PathStops == {"?", "#"}
ForbiddenHostChars == {" ", "!", "_", ":"} \cup HostStops

ParseFailure == [ok |-> FALSE, scheme |-> <<>>, hostname |-> <<>>, pathname |-> <<>>]

\* the part of s before, and from, its first character in cs
Before(s, cs) == SubSeq(s, 1, FirstIn(s, cs) - 1)
From(s, cs)   == SubSeq(s, FirstIn(s, cs), Len(s))

\* host state and path state of a special URL: the host is lower-cased, an
\* empty host is a failure, an empty path is "/"
SpecialUrl(scheme, host, path) ==
    IF Len(host) = 0 \/ \E i \in 1..Len(host) : host[i] \in ForbiddenHostChars
    THEN ParseFailure
    ELSE [ok |-> TRUE, scheme |-> scheme, hostname |-> ToLower(host),
          pathname |-> IF Len(path) = 0 THEN <<"/">> ELSE path]

\* a non-special URL with an authority: the host is opaque, kept as written
OpaqueHostUrl(scheme, host, path) ==
    IF \E i \in 1..Len(host) : host[i] \in {" ", ":"}
    THEN ParseFailure
    ELSE [ok |-> TRUE, scheme |-> scheme, hostname |-> host, pathname |-> path]

\* what follows "scheme:"
AfterScheme(scheme, rest) ==
    IF scheme \in SpecialSchemes
    THEN \* special authority ignore slashes state
        SpecialUrl(scheme,
                   Before(SubSeq(rest, FirstNotIn(rest, {"/"}), Len(rest)), HostStops),
                   Before(From(SubSeq(rest, FirstNotIn(rest, {"/"}), Len(rest)), HostStops),
                          PathStops))
    ELSE IF Len(rest) >= 2 /\ rest[1] = "/" /\ rest[2] = "/"
    THEN OpaqueHostUrl(scheme,
                       Before(SubSeq(rest, 3, Len(rest)), HostStops),
                       Before(From(SubSeq(rest, 3, Len(rest)), HostStops), PathStops))
    ELSE \* a path (absolute or opaque) and no host
        [ok |-> TRUE, scheme |-> scheme, hostname |-> <<>>,
         pathname |-> Before(rest, PathStops)]

\* scheme start state and scheme state, on the trimmed input
SchemeOf(s, colon) ==
    IF \/ Len(s) = 0
       \/ s[1] \notin AlphaChars
       \/ colon > Len(s)
       \/ \E i \in 1..(colon - 1) : s[i] \notin SchemeChars
    THEN ParseFailure
    ELSE AfterScheme(ToLower(SubSeq(s, 1, colon - 1)), SubSeq(s, colon + 1, Len(s)))

ParseURL(url) == SchemeOf(Trim(url), FirstIn(Trim(url), {":"}))

\* '.substack.com'
SubstackSuffix == <<".","s","u","b","s","t","a","c","k",".","c","o","m">>

\* /^\/p\/[\w-]+/.test(pathname): anchored at the start, one or more of [\w-]
PostPathTest(pathname) ==
    /\ Len(pathname) >= 4
    /\ SubSeq(pathname, 1, 3) = <<"/","p","/">>
    /\ pathname[4] \in WordChars \cup {"-"}

\* ------------------------------------------------------- errors and logging
NoError  == [name |-> "", message |-> <<>>]
\* what fs.appendFileSync (or path.join on an unset HOME) throws inside debug
LogError == [name |-> "Error", message |-> <<"ENOSPC: no space left on device, write">>]
\* const { url } = undefined
DestructureError ==
    [name |-> "TypeError",
     message |-> <<"Cannot destructure property 'url' of 'request.params.arguments' as it is undefined.">>]
FetchError == [name |-> "FetchError", message |-> <<"request failed, reason: connect ECONNREFUSED">>]
BodyError  == [name |-> "FetchError", message |-> <<"Invalid response body while trying to fetch: Premature close">>]
UnknownToolError(name) == [name |-> "Error", message |-> <<"Unknown tool: ", name>>]

Builds == {"basic", "enhanced"}

\* The debug call sites of the enhanced build, by line, per synchronous segment
\* of the handler.  Each site runs at most once per request.
CallSites    == {"L274", "L275", "L278", "L284", "L219", "L230", "L237", "L287", "L297", "L367"}
ValidateSites == {"L219", "L230", "L237"}
FetchSites   == {"L299", "L367"}
ExtractSites == {"L306", "L318", "L321", "L335", "L342", "L348", "L358", "L367"}

\* The debug calls that fail in one segment: none in the basic build, whose
\* debug only formats its arguments and writes to stderr.
FaultSets(b, sites) ==
    IF b = "basic" THEN {{}}
    ELSE {F \in SUBSET sites : Cardinality(F) <= MaxLogFaults}

\* debug(message, ...args): TRUE iff this call throws.  The log itself is
\* write-only (nothing in the program reads it back) and is not kept.
debugThrows(b, site, F) == b = "enhanced" /\ site \in F

\* ---------------------------------------------------------------- validateUrl
Returned(v) == [t |-> "returned", value |-> v, err |-> NoError]
Threw(e)    == [t |-> "threw", value |-> FALSE, err |-> e]

\* lines 24-27 and 225-228
IsValidUrl(parsed) ==
    \/ EndsWith(parsed.hostname, SubstackSuffix)
    \/ PostPathTest(parsed.pathname)

ValidateParsed(b, parsed, F) ==
    IF b = "basic"
    THEN \* lines 17-39: debug('Invalid URL structure:') and debug('URL parsing
         \* error:') precede the two return false statements
        IF ~parsed.ok THEN Returned(FALSE) ELSE Returned(IsValidUrl(parsed))
    ELSE \* lines 216-240
        IF \/ ~parsed.ok
           \/ debugThrows(b, "L219", F)
           \/ debugThrows(b, "L230", F)
        THEN \* catch (e)
            IF debugThrows(b, "L237", F) THEN Threw(LogError) ELSE Returned(FALSE)
        ELSE Returned(IsValidUrl(parsed))

validateUrl(b, url, F) == ValidateParsed(b, ParseURL(url), F)

\* ------------------------------------------------------ the parsed document
\* cheerio.load(html): the elements in document order, each with its tag, its
\* classes, its content and src attributes, its own text and its parent (0 for
\* the root).
Node(tag, cls, content, src, text) ==
    [tag |-> tag, cls |-> cls, content |-> content, src |-> src, text |-> text]
Place(node, parent) ==
    [tag |-> node.tag, cls |-> node.cls, content |-> node.content, src |-> node.src,
     text |-> node.text, parent |-> parent]

RECURSIVE IsAncestor(_, _, _)
IsAncestor(doc, a, i) ==
    /\ doc[i].parent # 0
    /\ \/ doc[i].parent = a
       \/ IsAncestor(doc, a, doc[i].parent)

\* a selection: the elements of doc whose indices are in set, in document order
Matching(doc, set) == SelectSeq([i \in 1..Len(doc) |-> i], LAMBDA i : i \in set)

\* .first()
First(sel) == IF sel = <<>> THEN <<>> ELSE <<Head(sel)>>

\* the text of one element: its own text and that of its descendants
ElementText(doc, i) ==
    Concat([j \in 1..Len(doc) |->
              IF j = i \/ IsAncestor(doc, i, j) THEN doc[j].text ELSE <<>>])

\* .text() of a selection: the texts of all its elements, concatenated
Text(doc, sel) == Concat([k \in 1..Len(sel) |-> ElementText(doc, sel[k])])

\* [attr*="substack"]: the attribute value contains the substring
ContainsSubstack(value) == \E k \in 1..Len(value) : value[k] = "substack"

\* lines 99-104 and 311-316
Markers(doc) ==
    [meta |-> Len(Matching(doc, {i \in 1..Len(doc) :
                 doc[i].tag = "meta" /\ ContainsSubstack(doc[i].content)})),
     script |-> Len(Matching(doc, {i \in 1..Len(doc) :
                 doc[i].tag = "script" /\ ContainsSubstack(doc[i].src)})),
     postContent |-> Len(Matching(doc, {i \in 1..Len(doc) : "post-content" \in doc[i].cls})),
     subscriberOnly |-> Len(Matching(doc, {i \in 1..Len(doc) : "subscriber-only" \in doc[i].cls}))]

HasSubstackMarkers(doc) ==
    LET m == Markers(doc)
    IN  m.meta > 0 \/ m.script > 0 \/ m.postContent > 0 \/ m.subscriberOnly > 0

\* a || b on strings: b when a is empty
OrElse(a, b) == IF a # <<>> THEN a ELSE b

\* lines 117 and 331
Title(doc) ==
    OrElse(Trim(Text(doc, First(Matching(doc, {i \in 1..Len(doc) : doc[i].tag = "h1"})))),
           Trim(Text(doc, Matching(doc, {i \in 1..Len(doc) :
                         doc[i].tag = "h1" /\ "post-title" \in doc[i].cls}))))

\* lines 120 and 332
Subtitle(doc) == Trim(Text(doc, Matching(doc, {i \in 1..Len(doc) : "subtitle" \in doc[i].cls})))

\* lines 121 and 333
Author(doc) ==
    OrElse(Trim(Text(doc, Matching(doc, {i \in 1..Len(doc) : "author-name" \in doc[i].cls}))),
           Trim(Text(doc, Matching(doc, {i \in 1..Len(doc) :
                         doc[i].tag = "a" /\ "subscriber-only" \in doc[i].cls}))))

\* $('.post-content, article, .body')
IsContainer(doc, i) ==
    "post-content" \in doc[i].cls \/ doc[i].tag = "article" \/ "body" \in doc[i].cls

\* .find('p, h2, h3'): the descendants of the containers, each once, in
\* document order
Found(doc) ==
    Matching(doc, {j \in 1..Len(doc) :
        /\ doc[j].tag \in {"p", "h2", "h3"}
        /\ \E c \in 1..Len(doc) : IsContainer(doc, c) /\ IsAncestor(doc, c, j)})

\* lines 124-127 and 337-340
Content(doc) ==
    LET found == Found(doc)
    IN  Concat([k \in 1..Len(found) |-> Trim(ElementText(doc, found[k])) \o <<"\n\n">>])

\* ---------------------------------------------------------------- responses
NoOutcome == [t |-> "none", isError |-> FALSE, text |-> <<>>, err |-> NoError]
\* return { content: [{ type: "text", text }], isError }
Payload(text, isError) == [t |-> "result", isError |-> isError, text |-> text, err |-> NoError]
\* the async handler rejects: the error goes to the dispatcher
Rejected(e) == [t |-> "thrown", isError |-> FALSE, text |-> <<>>, err |-> e]

\* lines 82 and 291
InvalidUrlText(b) ==
    IF b = "basic"
    THEN <<"Invalid URL format. Please provide a valid Substack post URL.",
           " This could be either a substack.com domain or a custom domain with a Substack post structure.">>
    ELSE <<"Invalid URL format. Please provide a valid Substack post URL.">>
\* lines 111 and 325
NotSubstackText(b) ==
    IF b = "basic"
    THEN <<"This URL doesn't appear to be a Substack post.",
           " Please ensure you're providing a valid Substack article URL.">>
    ELSE <<"This URL doesn't appear to be a Substack post.">>
\* lines 136 and 352
SubscriberOnlyText ==
    <<"This appears to be a subscriber-only post. I cannot access the full content.">>
ErrorPrefix == "Error processing Substack post: "
\* lines 158 (`${err}`, that is name: message) and 374 (`${err.message}`)
ErrorText(b, e) ==
    IF b = "basic"
    THEN <<ErrorPrefix, e.name, ": ">> \o e.message
    ELSE <<ErrorPrefix>> \o e.message
\* lines 148 and 362
SuccessText(title, author, subtitle, content) ==
    <<"Title: ">> \o title \o <<"\nAuthor: ">> \o author \o <<"\nSubtitle: ">> \o subtitle
        \o <<"\n\n">> \o content

\* ------------------------------------------------------- the request handler
\* How far a synchronous stretch of the try block got: it returned a payload,
\* threw, or reached an await.
Return(out) == [k |-> "return", out |-> out, err |-> NoError]
Throw(e)    == [k |-> "throw", out |-> NoOutcome, err |-> e]
Await       == [k |-> "await", out |-> NoOutcome, err |-> NoError]

\* catch (err) of the handler, lines 152-163 and 366-378
Catch(b, step, F) ==
    IF step.k # "throw" THEN step
    ELSE IF debugThrows(b, "L367", F) THEN Throw(LogError)
    ELSE Return(Payload(ErrorText(b, step.err), TRUE))

\* The outcome of a request once a stretch has ended without an await: the
\* payload it returned, or the rejection of the handler's promise.
Outcome(step) == IF step.k = "throw" THEN Rejected(step.err) ELSE step.out

NoArguments == [given |-> FALSE, url |-> <<>>]
Arguments(url) == [given |-> TRUE, url |-> url]

\* what the handler reads off the parsed document, lines 96-127 and 308-340
PageFacts(doc) ==
    [marked |-> HasSubstackMarkers(doc),
     title |-> Title(doc), subtitle |-> Subtitle(doc), author |-> Author(doc),
     content |-> Content(doc)]

\* lines 94-151 and 306-364: the try block once html has arrived
RespondNoPaywallGate(b, facts, F) ==
    IF debugThrows(b, "L306", F) \/ debugThrows(b, "L318", F) THEN Throw(LogError)
    ELSE IF ~facts.marked
    THEN IF debugThrows(b, "L321", F) THEN Throw(LogError)
         ELSE Return(Payload(NotSubstackText(b), TRUE))
    ELSE IF debugThrows(b, "L335", F) \/ debugThrows(b, "L342", F) THEN Throw(LogError)
    ELSE IF debugThrows(b, "L358", F) THEN Throw(LogError)
    ELSE Return(Payload(SuccessText(facts.title, facts.author, facts.subtitle,
                                    facts.content), FALSE))
Respond(b, facts, F) ==
    IF debugThrows(b, "L306", F) \/ debugThrows(b, "L318", F) THEN Throw(LogError)
    ELSE IF ~facts.marked
    THEN IF debugThrows(b, "L321", F) THEN Throw(LogError)
         ELSE Return(Payload(NotSubstackText(b), TRUE))
    ELSE IF debugThrows(b, "L335", F) \/ debugThrows(b, "L342", F) THEN Throw(LogError)
    ELSE IF facts.content = <<>>
    THEN IF debugThrows(b, "L348", F) THEN Throw(LogError)
         ELSE Return(Payload(SubscriberOnlyText, TRUE))
    ELSE IF debugThrows(b, "L358", F) THEN Throw(LogError)
    ELSE Return(Payload(SuccessText(facts.title, facts.author, facts.subtitle,
                                    facts.content), FALSE))

\* the handler from its first line to `await fetch(url)`, lines 68-90 and 273-298
\* (in the basic build validateUrl runs before debug('Processing URL:'))
NotRead  == [argsRead |-> FALSE, valid |-> "none"]
ArgsRead == [argsRead |-> TRUE, valid |-> "none"]
Validated(v) ==
    [argsRead |-> TRUE,
     valid |-> IF v.t = "threw" THEN "threw" ELSE IF v.value THEN "true" ELSE "false"]

\* v is what validateUrl(url) does when the handler reaches it
BeginWith(b, name, args, F, v) ==
    IF debugThrows(b, "L274", F) \/ debugThrows(b, "L275", F)
    THEN [step |-> Throw(LogError), did |-> NotRead]
    ELSE IF name # "download_substack"
    THEN [step |-> IF debugThrows(b, "L278", F) THEN Throw(LogError)
                   ELSE Throw(UnknownToolError(name)),
          did |-> NotRead]
    ELSE IF ~args.given
    THEN [step |-> Catch(b, Throw(DestructureError), F), did |-> NotRead]
    ELSE IF debugThrows(b, "L284", F)
    THEN [step |-> Catch(b, Throw(LogError), F), did |-> ArgsRead]
    ELSE IF v.t = "threw"
    THEN [step |-> Catch(b, Throw(v.err), F), did |-> Validated(v)]
    ELSE IF ~v.value
    THEN [step |-> Catch(b, IF debugThrows(b, "L287", F) THEN Throw(LogError)
                            ELSE Return(Payload(InvalidUrlText(b), TRUE)), F),
          did |-> Validated(v)]
    ELSE IF debugThrows(b, "L297", F)
    THEN [step |-> Catch(b, Throw(LogError), F), did |-> Validated(v)]
    ELSE [step |-> Await, did |-> Validated(v)]

Begin(b, name, args, F) == BeginWith(b, name, args, F, validateUrl(b, args.url, F))

\* fetch(url) has settled: lines 90-93 and 298-305, to `await response.text()`
AfterFetch(b, resolved, F) ==
    IF ~resolved THEN Catch(b, Throw(FetchError), F)
    ELSE IF debugThrows(b, "L299", F) THEN Catch(b, Throw(LogError), F)
    ELSE Await

\* response.text() has settled: lines 93-151 and 305-364
AfterTextResolved(b, facts, F) == Catch(b, Respond(b, facts, F), F)
AfterText(b, resolved, doc, F) ==
    IF ~resolved THEN Catch(b, Throw(BodyError), F)
    ELSE AfterTextResolved(b, PageFacts(doc), F)

\* what the last stretch can do on one document, over the debug calls that
\* may fail in it
ExtractOutcomes(b, doc) ==
    LET facts == PageFacts(doc)
    IN  {Outcome(AfterTextResolved(b, facts, F)) : F \in FaultSets(b, ExtractSites)}

\* -------------------------------------------------------------------- inputs
sHttps == <<"h","t","t","p","s">>
sHttp  == <<"h","t","t","p">>
sSlashes == <<"/","/">>
sPost  == <<"/","p","/","a","-","b">>

\* the url arguments of the tool calls
UrlSubstackHost == sHttps \o <<":">> \o sSlashes \o <<"a">> \o SubstackSuffix \o <<"/">>
UrlPostPath     == sHttp \o <<":">> \o sSlashes \o <<"e",".","i","o">> \o sPost
UrlAbout        == sHttps \o <<":">> \o sSlashes \o <<"e",".","i","o","/","a","b","o","u","t">>
UrlNoScheme     == <<"e",".","i","o">> \o sPost
RequestUrls == {UrlSubstackHost, UrlPostPath, UrlAbout, UrlNoScheme}
RequestArgs == {NoArguments} \cup {Arguments(u) : u \in RequestUrls}
ToolNames == {"download_substack", "list_posts"}

\* elements of the fetched documents
MetaSubstack   == Node("meta", {}, <<"https://", "substack", "cdn.com/icon.png">>, <<>>, <<>>)
ScriptSubstack == Node("script", {}, <<>>, <<"https://", "substack", "cdn.com/main.js">>, <<>>)
H1Title        == Node("h1", {"post-title"}, <<>>, <<>>, <<"My", " ", "Title">>)
PostContentDiv == Node("div", {"post-content"}, <<>>, <<>>, <<>>)
ArticleEl      == Node("article", {}, <<>>, <<>>, <<>>)
BodyDiv        == Node("div", {"body"}, <<>>, <<>>, <<>>)
PHello         == Node("p", {}, <<>>, <<>>, <<"Hello">>)
PBlank         == Node("p", {}, <<>>, <<>>, <<" ">>)
H2Intro        == Node("h2", {}, <<>>, <<>>, <<" ", "Intro", "\n">>)
SubtitleOne    == Node("h3", {"subtitle"}, <<>>, <<>>, <<"First", " ", "subtitle">>)
SubtitleTwo    == Node("div", {"subtitle"}, <<>>, <<>>, <<"Second">>)
AuthorOne      == Node("span", {"author-name"}, <<>>, <<>>, <<"Ann">>)
SubscribeLink  == Node("a", {"subscriber-only"}, <<>>, <<>>, <<"Subscribe">>)
SubscribeBanner == Node("div", {"subscriber-only"}, <<>>, <<>>, <<"Subscribe", " ", "to", " ", "read">>)

\* the documents the network serves to the tool calls
PagePost      == <<Place(MetaSubstack, 0), Place(H1Title, 0), Place(PostContentDiv, 0),
                   Place(PHello, 3)>>
PageForeign   == <<Place(H1Title, 0), Place(BodyDiv, 0), Place(PHello, 2)>>
PagePaywalled == <<Place(ScriptSubstack, 0), Place(PostContentDiv, 0),
                   Place(SubscribeBanner, 2)>>
Pages == {PagePost, PageForeign, PagePaywalled}

\* the elements of the documents of the extraction runs
NodeKinds == {MetaSubstack, ScriptSubstack, H1Title, PostContentDiv, ArticleEl, BodyDiv,
              PHello, PBlank, H2Intro, SubtitleOne, SubtitleTwo, AuthorOne, SubscribeLink}
VoidTags == {"meta", "script"}
\* where the next element of doc may go: under the root, under the last
\* element, or under one of the last element's ancestors
OpenParents(doc) ==
    {0} \cup {q \in 1..Len(doc) :
                /\ doc[q].tag \notin VoidTags
                /\ q = Len(doc) \/ IsAncestor(doc, q, Len(doc))}
\* the strings validateUrl is run on: a scheme, slashes, a host, a path and a
\* query or fragment, each possibly missing or malformed
UrlSchemes == {sHttps \o <<":">>, <<"H","T","T","P",":">>, <<"x",":">>, <<"1","x",":">>, <<>>,
               <<" ">> \o sHttps \o <<":">>}
UrlSlashes == {sSlashes, <<>>}
UrlHosts == {<<"a">> \o SubstackSuffix,
             <<"A",".","S","U","B","S","T","A","C","K",".","C","O","M">>,
             Tail(SubstackSuffix),
             <<"x">> \o Tail(SubstackSuffix),
             <<"a">> \o SubstackSuffix \o <<".","i","o">>,
             <<"e",".","i","o">>,
             <<>>}
UrlPaths == {<<>>, <<"/">>, <<"/","p","/">>, sPost, <<"/","p","/","_">>, <<"/","p","/","-">>,
             <<"/","p","/","!">>, <<"/","P","/","a">>, <<"/","x","/","p","/","a">>,
             <<"/","p","/","a","/","b","!">>, <<"/","p","a">>}
UrlTails == {<<>>, <<"?">> \o sPost, <<"#">> \o SubstackSuffix}
UrlStrings ==
    {sc \o sl \o h \o pa \o t :
        sc \in UrlSchemes, sl \in UrlSlashes, h \in UrlHosts, pa \in UrlPaths, t \in UrlTails}

\* --------------------------------------------------------------------- state
VARIABLES
    build,      \* which of the two builds of index.mjs runs
    req,        \* the tool calls: where each handler is, what it was given and did
    checkUrl,   \* validateUrl alone: its argument
    checkOut,   \* validateUrl alone: what the call did
    page,       \* extraction alone: the document response.text() delivers
    pageOut     \* extraction alone: the handler's response

vars == <<build, req, checkUrl, checkOut, page, pageOut>>

Reqs == 1..NumReqs

NoResponse == [arrived |-> FALSE, body |-> <<>>]
Response(doc) == [arrived |-> TRUE, body |-> doc]

Idle == [pc |-> "idle", name |-> "", args |-> NoArguments, argsRead |-> FALSE,
         valid |-> "none", fetched |-> FALSE, resp |-> NoResponse, text |-> "none",
         out |-> NoOutcome]

NotCalled == [t |-> "none", value |-> FALSE, err |-> NoError]

\* the handler goes on after a synchronous stretch: to the next await, or to
\* its end with the outcome of the request
Proceed(r, step, awaiting) ==
    [req[r] EXCEPT !.pc = IF step.k = "await" THEN awaiting ELSE "done",
                   !.out = IF step.k = "await" THEN NoOutcome ELSE Outcome(step)]

\* fetch(url), lines 90 and 298: node-fetch requests http and https URLs only
CanReach(url) == ParseURL(url).scheme \in SpecialSchemes

\* const html = await response.text(), lines 93 and 305
ResponseTextShared(r) ==
    LET reading == {q \in Reqs : req[q].pc = "reading"}
    IN  req[CHOOSE q \in reading : \A q2 \in reading : q2 <= q].resp.body
ResponseText(r) == req[r].resp.body

\* ------------------------------------------------------------------- actions
\* a CallToolRequest arrives and the handler runs to its first await or its end
\* What each synchronous stretch can do, over the debug calls that may fail in
\* it.  A stretch reads nothing but its own arguments, so its outcomes are
\* tabulated once per build.
BeginOutcomes ==
    [b \in Builds |->
        {[name |-> name, args |-> args, did |-> Begin(b, name, args, F)] :
            name \in ToolNames, args \in RequestArgs, F \in FaultSets(b, CallSites)}]

AfterFetchOutcomes ==
    [b \in Builds |->
        [resolved \in BOOLEAN |->
            {AfterFetch(b, resolved, F) : F \in FaultSets(b, FetchSites)}]]

AfterTextOutcomes ==
    [b \in Builds |->
        [doc \in Pages |->
            {AfterTextResolved(b, PageFacts(doc), F) : F \in FaultSets(b, ExtractSites)}]]

AfterTextFailedOutcomes ==
    [b \in Builds |-> {AfterText(b, FALSE, <<>>, F) : F \in FaultSets(b, ExtractSites)}]

\* a CallToolRequest arrives and the handler runs to its first await or its end
CallTool(r) ==
    /\ req[r].pc = "idle"
    /\ \E o \in BeginOutcomes[build] :
        req' = [req EXCEPT ![r] =
                  [Proceed(r, o.did.step, "fetching") EXCEPT
                      !.name = o.name, !.args = o.args,
                      !.argsRead = o.did.did.argsRead, !.valid = o.did.did.valid,
                      !.fetched = (o.did.step.k = "await")]]
    /\ UNCHANGED <<build, checkUrl, checkOut, page, pageOut>>

\* the fetch promise resolves with a response
FetchResolve(r) ==
    /\ req[r].pc = "fetching"
    /\ CanReach(req[r].args.url)
    /\ \E doc \in Pages, step \in AfterFetchOutcomes[build][TRUE] :
        req' = [req EXCEPT ![r] =
                  [Proceed(r, step, "reading") EXCEPT !.resp = Response(doc)]]
    /\ UNCHANGED <<build, checkUrl, checkOut, page, pageOut>>

\* the fetch promise rejects (DNS, connection refused, unsupported protocol)
FetchReject(r) ==
    /\ req[r].pc = "fetching"
    /\ \E step \in AfterFetchOutcomes[build][FALSE] :
        req' = [req EXCEPT ![r] = Proceed(r, step, "reading")]
    /\ UNCHANGED <<build, checkUrl, checkOut, page, pageOut>>

\* response.text() resolves with the body; the handler parses and extracts
TextResolve(r) ==
    /\ req[r].pc = "reading"
    /\ \E step \in AfterTextOutcomes[build][ResponseText(r)] :
        req' = [req EXCEPT ![r] = [Proceed(r, step, "done") EXCEPT !.text = "read"]]
    /\ UNCHANGED <<build, checkUrl, checkOut, page, pageOut>>

\* response.text() rejects (the body stream breaks)
TextReject(r) ==
    /\ req[r].pc = "reading"
    /\ \E step \in AfterTextFailedOutcomes[build] :
        req' = [req EXCEPT ![r] = [Proceed(r, step, "done") EXCEPT !.text = "failed"]]
    /\ UNCHANGED <<build, checkUrl, checkOut, page, pageOut>>

\* validateUrl(url) is called on its own
CallValidateUrl ==
    /\ checkOut.t = "none"
    /\ \E F \in FaultSets(build, ValidateSites) :
        checkOut' = validateUrl(build, checkUrl, F)
    /\ UNCHANGED <<build, req, checkUrl, page, pageOut>>

\* the handler's last stretch is run on a document on its own
ExtractPage ==
    /\ pageOut.t = "none"
    /\ pageOut' \in ExtractOutcomes(build, page)
    /\ UNCHANGED <<build, req, checkUrl, checkOut, page>>

\* the origin server writes one more element into the document it will serve:
\* up to MaxNodes elements, in document order, each a child of the root or of
\* an element still open before it
WriteElement ==
    /\ pageOut.t = "none"
    /\ Len(page) < MaxNodes
    /\ \E kind \in NodeKinds, q \in OpenParents(page) :
        page' = Append(page, Place(kind, q))
    /\ UNCHANGED <<build, req, checkUrl, checkOut, pageOut>>

\* ------------------------------------------------------------ specifications
\* the server with NumReqs tool calls in flight
Init ==
    /\ build \in Builds
    /\ req = [r \in Reqs |-> Idle]
    /\ checkUrl = <<>>
    /\ checkOut = NotCalled
    /\ page = <<>>
    /\ pageOut = NoOutcome

Next ==
    \/ \E r \in Reqs : CallTool(r)
    \/ \E r \in Reqs : FetchResolve(r)
    \/ \E r \in Reqs : FetchReject(r)
    \/ \E r \in Reqs : TextResolve(r)
    \/ \E r \in Reqs : TextReject(r)

Spec == Init /\ [][Next]_vars

\* validateUrl on every string of UrlStrings
InitUrl ==
    /\ build \in Builds
    /\ req = [r \in Reqs |-> Idle]
    /\ checkUrl \in UrlStrings
    /\ checkOut = NotCalled
    /\ page = <<>>
    /\ pageOut = NoOutcome

SpecUrl == InitUrl /\ [][CallValidateUrl]_vars

\* extraction on every document of up to MaxNodes elements
NextExtract == WriteElement \/ ExtractPage

SpecExtract == Init /\ [][NextExtract]_vars

\* the same for the basic build alone, whose debug cannot throw
InitBasic == Init /\ build = "basic"

SpecExtractBasic == InitBasic /\ [][NextExtract]_vars

\* -------------------------------------------------------------------- claims
IsSuccess(out) == out.t = "result" /\ ~out.isError
Tokens(text) == {text[i] : i \in 1..Len(text)}

\* the fields of a success text, read back from it: the author is what lies
\* between "\nAuthor: " and "\nSubtitle: ", the subtitle what lies between
\* "\nSubtitle: " and the blank line after it, the body all that follows
AuthorField(text) ==
    SubSeq(text, FirstIn(text, {"\nAuthor: "}) + 1, FirstIn(text, {"\nSubtitle: "}) - 1)
AfterSubtitleLabel(text) == SubSeq(text, FirstIn(text, {"\nSubtitle: "}) + 1, Len(text))
SubtitleField(text) == Before(AfterSubtitleLabel(text), {"\n\n"})
BodyField(text) ==
    SubSeq(AfterSubtitleLabel(text), FirstIn(AfterSubtitleLabel(text), {"\n\n"}) + 1,
           Len(AfterSubtitleLabel(text)))

\* C1: validateUrl(url) returns, for every string, and returns true exactly
\* when the string parses as a URL whose host ends with '.substack.com' or
\* whose path starts with '/p/' and a word character or hyphen; it never throws.
Admissible(url) ==
    /\ ParseURL(url).ok
    /\ \/ \E prefix \in {SubSeq(ParseURL(url).hostname, 1, n) :
                            n \in 0..Len(ParseURL(url).hostname)} :
            ParseURL(url).hostname = prefix \o SubstackSuffix
       \/ /\ Len(ParseURL(url).pathname) > 3
          /\ ParseURL(url).pathname[1] = "/"
          /\ ParseURL(url).pathname[2] = "p"
          /\ ParseURL(url).pathname[3] = "/"
          /\ ParseURL(url).pathname[4] \in WordChars \cup {"-"}
C1_ValidateUrlTotal ==
    checkOut.t # "none" =>
        /\ checkOut.t = "returned"
        /\ checkOut.value = Admissible(checkUrl)

\* C2: a document with none of the four markers gets the 'not a Substack post'
\* failure with the error flag set, whatever else it contains.
NoMarkerIn(doc) ==
    \A i \in 1..Len(doc) :
        /\ ~(doc[i].tag = "meta" /\ "substack" \in Tokens(doc[i].content))
        /\ ~(doc[i].tag = "script" /\ "substack" \in Tokens(doc[i].src))
        /\ "post-content" \notin doc[i].cls
        /\ "subscriber-only" \notin doc[i].cls
C2_NoMarkersIsNotSubstack ==
    (pageOut.t # "none" /\ NoMarkerIn(page)) =>
        pageOut = Payload(NotSubstackText(build), TRUE)

\* C3: a marker-positive document whose containers yield no paragraph or heading
\* text (no p/h2/h3 descendant, or only empty and whitespace-only ones) gets the
\* subscriber-only failure with the error flag set.
NoParagraphText(doc) ==
    \A j \in 1..Len(doc) :
        (/\ doc[j].tag \in {"p", "h2", "h3"}
         /\ \E c \in 1..Len(doc) : IsContainer(doc, c) /\ IsAncestor(doc, c, j))
        => Tokens(ElementText(doc, j)) \subseteq WhiteSpace
C3_NoTextIsPaywalled ==
    (pageOut.t # "none" /\ ~NoMarkerIn(page) /\ NoParagraphText(page)) =>
        pageOut = Payload(SubscriberOnlyText, TRUE)

\* C4: a success response never has an empty body: its text carries a
\* non-empty body, and the body assembled from its document is not empty.
C4_SuccessHasBody ==
    IsSuccess(pageOut) =>
        /\ BodyField(pageOut.text) # <<>>
        /\ Content(page) # <<>>
C4_Witness ==
    /\ IsSuccess(pageOut)
    /\ BodyField(pageOut.text) = <<"Hello", "\n\n">>
    /\ Len(page) = 2

\* C5: a request fetches only after validateUrl returned true for its url; when
\* validateUrl returned false the request ends with the invalid-URL failure
\* (error flag set) and never fetches.
C5_FetchOnlyAfterValid ==
    \A r \in Reqs :
        /\ req[r].fetched => req[r].valid = "true"
        /\ (req[r].pc = "done" /\ req[r].valid = "false") =>
              /\ ~req[r].fetched
              /\ req[r].out = Payload(InvalidUrlText(build), TRUE)

\* C6: for a download_substack request the handler never throws, and every error
\* that reaches it (missing arguments, a failed fetch, a failed body read) becomes
\* a payload with the error flag set whose text begins with 'Error processing
\* Substack post:' and carries the error's message.
ErrorPayloadFor(out, e) ==
    /\ out.t = "result"
    /\ out.isError
    /\ Head(out.text) = ErrorPrefix
    /\ EndsWith(out.text, e.message)
C6_ErrorsBecomePayloads ==
    \A r \in Reqs :
        (req[r].pc = "done" /\ req[r].name = "download_substack") =>
            /\ req[r].out.t = "result"
            /\ ~req[r].args.given => ErrorPayloadFor(req[r].out, DestructureError)
            /\ (req[r].fetched /\ ~req[r].resp.arrived) =>
                  ErrorPayloadFor(req[r].out, FetchError)
            /\ req[r].text = "failed" => ErrorPayloadFor(req[r].out, BodyError)

\* C7: a failing debug call changes nothing: the request's response is the one
\* it produces when every debug call succeeds, and validateUrl returns the same
\* boolean.
Quiet == {}
\* the responses of request r had no debug call failed, given what the network
\* did for it (or could have done, where the request never got that far)
QuietAfterText(r) ==
    IF req[r].text = "failed" THEN {Outcome(AfterText(build, FALSE, <<>>, Quiet))}
    ELSE IF req[r].text = "read"
    THEN {Outcome(AfterText(build, TRUE, req[r].resp.body, Quiet))}
    ELSE {Outcome(AfterText(build, FALSE, <<>>, Quiet)),
          Outcome(AfterText(build, TRUE, req[r].resp.body, Quiet))}
QuietAfterFetch(r) ==
    IF req[r].resp.arrived THEN QuietAfterText(r)
    ELSE IF req[r].fetched THEN {Outcome(AfterFetch(build, FALSE, Quiet))}
    ELSE {Outcome(AfterFetch(build, FALSE, Quiet)), Outcome(AfterText(build, FALSE, <<>>, Quiet))}
            \cup {Outcome(AfterText(build, TRUE, doc, Quiet)) : doc \in Pages}
QuietOutcomes(r) ==
    IF Begin(build, req[r].name, req[r].args, Quiet).step.k = "await"
    THEN QuietAfterFetch(r)
    ELSE {Outcome(Begin(build, req[r].name, req[r].args, Quiet).step)}
C7_LoggingNeverFailsRequest ==
    \A r \in Reqs :
        /\ req[r].pc = "done" => req[r].out \in QuietOutcomes(r)
        /\ req[r].valid # "none" =>
              req[r].valid = Validated(validateUrl(build, req[r].args.url, Quiet)).valid

\* C8: a call naming any other tool ends with the unknown-tool error thrown to
\* the dispatcher, not with a payload, before any argument is read, any url is
\* validated and any fetch is issued.
C8_UnknownToolAborts ==
    \A r \in Reqs :
        (req[r].pc = "done" /\ req[r].name # "download_substack") =>
            /\ req[r].out = Rejected(UnknownToolError(req[r].name))
            /\ ~req[r].argsRead
            /\ req[r].valid = "none"
            /\ ~req[r].fetched

\* C9: whatever the interleaving, the response of a request is one its own
\* name, arguments, fetch result and fetched document allow; no other request's
\* url or document shows in it.
OwnOutcomes(r) ==
    IF req[r].text = "read"
    THEN {Outcome(step) : step \in AfterTextOutcomes[build][req[r].resp.body]}
    ELSE IF req[r].text = "failed"
    THEN {Outcome(step) : step \in AfterTextFailedOutcomes[build]}
    ELSE IF req[r].fetched
    THEN {Outcome(step) : step \in AfterFetchOutcomes[build][req[r].resp.arrived]}
    ELSE {Outcome(o.did.step) :
            o \in {o \in BeginOutcomes[build] :
                     o.name = req[r].name /\ o.args = req[r].args}}
C9_ResponsesIsolated ==
    \A r \in Reqs : req[r].pc = "done" => req[r].out \in OwnOutcomes(r)
C9_Witness ==
    /\ NumReqs >= 2
    /\ req[1].pc = "done" /\ req[1].text = "read" /\ req[1].resp.body = PagePost
    /\ IsSuccess(req[1].out)
    /\ req[2].pc = "done" /\ req[2].text = "read" /\ req[2].resp.body = PagePaywalled
    /\ req[2].out = Payload(SubscriberOnlyText, TRUE)
    /\ req[1].args # req[2].args

\* C10: in a success response the subtitle is the trimmed text of the first
\* .subtitle element alone (empty if there is none) and the author that of the
\* first .author-name element alone.
FirstText(doc, cls) ==
    IF \E i \in 1..Len(doc) : cls \in doc[i].cls
    THEN Trim(ElementText(doc, CHOOSE i \in 1..Len(doc) :
                 cls \in doc[i].cls /\ \A j \in 1..(i - 1) : cls \notin doc[j].cls))
    ELSE <<>>
C10_FirstSubtitleAndAuthorOnly ==
    IsSuccess(pageOut) =>
        /\ SubtitleField(pageOut.text) = FirstText(page, "subtitle")
        /\ FirstText(page, "author-name") # <<>> =>
              AuthorField(pageOut.text) = FirstText(page, "author-name")

====
